---- MODULE Spec2Model ----
(***************************************************************************)
(* Model of fix_html_structure.py: fix_nested_html (one regular-expression *)
(* search and splice on one file) and main (the batch driver over the      *)
(* sorted *.html files of one directory).                                  *)
(*                                                                         *)
(* A text is a sequence of tokens.  Every literal of the pattern starts    *)
(* with '<' and holds no other '<', and every token that holds '>' ends    *)
(* with it, so every group boundary of a match lies on a token boundary.   *)
(***************************************************************************)
EXTENDS Integers, Sequences, FiniteSets, TLC

\* ------------------------------------------------------------------ bounds
MaxPieces == 3
MaxFiles == 3

\* ------------------------------------------------------------------ tokens
\* DIV   <div class="display-inner">      T  <!DOCTYPE html>
\* B     <body          G  >              E  </body>       H  </html>
\* V     </div>         W  one whitespace character
\* HTMLO <html>         X, I, Y, A        runs of ordinary characters
Tokens == {"DIV", "T", "B", "G", "E", "H", "V", "W", "X", "HTMLO", "A", "I", "Y"}

\* the tokens whose last character is '>' (what the '>' of <body.*?> can match)
EndsGT(tok) == tok \in {"DIV", "T", "G", "E", "H", "V", "HTMLO"}

\* number of characters of a token (len() of the Python string)
CharLen(tok) ==
    CASE tok = "DIV" -> 27
      [] tok = "T" -> 15
      [] tok = "B" -> 5
      [] tok = "G" -> 1
      [] tok = "E" -> 7
      [] tok = "H" -> 7
      [] tok = "V" -> 6
      [] tok = "W" -> 1
      [] tok = "X" -> 1
      [] tok = "HTMLO" -> 6
      [] tok = "A" -> 10
      [] tok = "I" -> 5
      [] tok = "Y" -> 1

RECURSIVE TextLen(_)
TextLen(t) == IF t = <<>> THEN 0 ELSE CharLen(Head(t)) + TextLen(Tail(t))

Min(S) == CHOOSE x \in S : \A y \in S : x <= y
Max(S) == CHOOSE x \in S : \A y \in S : x >= y

\* ------------------------------------------------------- the pattern search
\* Positions are 1-based; an end position is the index of the first token
\* after the span.  0 stands for "this alternative failed".

\* (.*?</div>) from p: lazy, so the first </div> at or after p ends group 5
M5(t, p) ==
    LET S == {q \in p..Len(t) : t[q] = "V"}
    IN  IF S = {} THEN 0 ELSE Min(S) + 1

\* \s* is greedy and </html> is no whitespace: only the whole run can be skipped
SkipWs(t, q) ==
    LET S == {r \in q..Len(t) : t[r] # "W"}
    IN  IF S = {} THEN Len(t) + 1 ELSE Min(S)

\* (</body>\s*</html>) at p followed by group 5: <<end of group 4, end of group 5>>
M4(t, p) ==
    IF p > Len(t) \/ t[p] # "E" THEN <<0, 0>>
    ELSE LET q == SkipWs(t, p + 1)
         IN  IF q <= Len(t) /\ t[q] = "H" /\ M5(t, q + 1) # 0
             THEN <<q + 1, M5(t, q + 1)>>
             ELSE <<0, 0>>

\* M3 with a greedy group 3: the last position where group 4 and 5 can follow
M3Greedy(t, p) ==
    LET S == {e \in p..Len(t) : M4(t, e)[1] # 0}
    IN  IF S = {} THEN 0 ELSE Max(S)

\* (.*?) from p: the first position where group 4 and group 5 can follow
M3(t, p) ==
    LET S == {e \in p..Len(t) : M4(t, e)[1] # 0}
    IN  IF S = {} THEN 0 ELSE Min(S)

\* <body.*?> with <body at b: the first '>' after which the rest can follow
MGt(t, b) ==
    LET S == {g \in (b + 1)..Len(t) : EndsGT(t[g]) /\ M3(t, g + 1) # 0}
    IN  IF S = {} THEN 0 ELSE Min(S) + 1

\* (<!DOCTYPE html>.*?<body.*?>) at d: the first <body from which the rest matches
M2(t, d) ==
    IF d > Len(t) \/ t[d] # "T" THEN 0
    ELSE LET S == {b \in (d + 1)..Len(t) : t[b] = "B" /\ MGt(t, b) # 0}
         IN  IF S = {} THEN 0 ELSE MGt(t, Min(S))

\* M1 without the test for the wrapper's opening tag
M1AnyStart(t, s) ==
    LET S == {d \in (s + 1)..Len(t) : M2(t, d) # 0}
    IN  IF S = {} THEN 0 ELSE Min(S)

\* (<div class="display-inner">.*?) at s: the first <!DOCTYPE html> that works
M1(t, s) ==
    IF t[s] # "DIV" THEN 0
    ELSE LET S == {d \in (s + 1)..Len(t) : M2(t, d) # 0}
         IN  IF S = {} THEN 0 ELSE Min(S)

NoMatch == [start |-> 0, g2 |-> 0, g3 |-> 0, g4 |-> 0, g5 |-> 0, end |-> 0]

\* pattern.search(content): the leftmost start from which the pattern matches
Search(t) ==
    LET S == {s \in 1..Len(t) : M1(t, s) # 0}
    IN  IF S = {} THEN NoMatch
        ELSE LET s == Min(S)
                 d == M1(t, s)
                 g == M2(t, d)
                 e == M3(t, g)
             IN  [start |-> s, g2 |-> d, g3 |-> g, g4 |-> e,
                  g5 |-> M4(t, e)[1], end |-> M4(t, e)[2]]

Group1(t, m) == SubSeq(t, m.start, m.g2 - 1)
Group2(t, m) == SubSeq(t, m.g2, m.g3 - 1)
Group3(t, m) == SubSeq(t, m.g3, m.g4 - 1)
Group4(t, m) == SubSeq(t, m.g4, m.g5 - 1)
Group5(t, m) == SubSeq(t, m.g5, m.end - 1)

\* NewEmbedded that drops group 2 only
NewEmbeddedKeepsClosing(t, m) ==
    Group1(t, m) \o Group3(t, m) \o Group4(t, m) \o Group5(t, m)

\* NewContent without content[:match.start()]
NewContentFromStart(t, m) ==
    Group1(t, m) \o Group3(t, m) \o Group5(t, m) \o SubSeq(t, m.end, Len(t))

\* NewContent that goes on to rewrite every later match as well (pattern.sub)
RECURSIVE SubAll(_)
SubAll(t) ==
    LET m == Search(t)
    IN  IF m = NoMatch THEN t
        ELSE SubSeq(t, 1, m.start - 1) \o Group1(t, m) \o Group3(t, m) \o Group5(t, m)
                \o SubAll(SubSeq(t, m.end, Len(t)))
NewContentAll(t, m) == SubAll(t)

\* new_embedded_content and new_content of fix_nested_html
NewEmbedded(t, m) == Group1(t, m) \o Group3(t, m) \o Group5(t, m)
NewContent(t, m) ==
    SubSeq(t, 1, m.start - 1) \o NewEmbedded(t, m) \o SubSeq(t, m.end, Len(t))

\* ------------------------------------------------------------- input texts
Library ==
    { <<"DIV">>, <<"T">>, <<"B">>, <<"G">>, <<"E">>, <<"H">>, <<"V">>, <<"W">>, <<"X">>,
      <<"T", "B", "G">>, <<"E", "H">>, <<"E", "H", "V">>, <<"DIV", "T", "B", "G">>,
      <<"DIV", "T", "B", "G", "I", "E", "H", "V">> }

RECURSIVE Flatten(_)
Flatten(ps) == IF ps = <<>> THEN <<>> ELSE Head(ps) \o Flatten(Tail(ps))

PieceTexts == {Flatten(ps) : ps \in UNION {[1..k -> Library] : k \in 0..MaxPieces}}

\* <div class="display-inner">X<!DOCTYPE html><html><body class="x">INNER</body></html>Y</div>
Example == <<"DIV", "X", "T", "HTMLO", "B", "A", "G", "I", "E", "H", "Y", "V">>
ExampleFixed == <<"DIV", "X", "I", "Y", "V">>
\* an outer document whose wrapper holds one nested document
Page == <<"T", "HTMLO", "B", "G">> \o Example \o <<"W", "E", "W", "H">>
\* a file without any wrapper
Plain == <<"T", "HTMLO", "B", "G", "X", "E", "H">>
\* two independent nested documents in one file
Twice == Example \o <<"W">> \o Example

SampleTexts == {Example, Page, Plain, Twice}

\* -------------------------------------------------------------- file names
\* a name is the sequence of the code points of its characters
DotHtml == <<46, 104, 116, 109, 108>>
NameA == <<97>> \o DotHtml
NameADashB == <<97, 45, 98>> \o DotHtml
NameB == <<98>> \o DotHtml
NameBTxt == <<98, 46, 116, 120, 116>>
Names == {NameA, NameADashB, NameB, NameBTxt}

\* glob('*.html'): the name ends with ".html"
IsHtml(n) == Len(n) >= Len(DotHtml) /\ SubSeq(n, Len(n) - Len(DotHtml) + 1, Len(n)) = DotHtml

\* the order of sorted() on the paths of one directory: code point by code point
LexLess(a, b) ==
    \E k \in 1..(Len(a) + 1) :
        /\ k <= Len(b)
        /\ \A j \in 1..(k - 1) : a[j] = b[j]
        /\ (k = Len(a) + 1 \/ a[k] < b[k])

\* SortedSeq without the sort: some order of the directory listing
RECURSIVE UnsortedSeq(_)
UnsortedSeq(S) ==
    IF S = {} THEN <<>>
    ELSE LET m == CHOOSE x \in S : \A y \in S \ {x} : LexLess(y, x)
         IN  <<m>> \o UnsortedSeq(S \ {m})

RECURSIVE SortedSeq(_)
SortedSeq(S) ==
    IF S = {} THEN <<>>
    ELSE LET m == CHOOSE x \in S : \A y \in S \ {x} : LexLess(x, y)
         IN  <<m>> \o SortedSeq(S \ {m})

\* HtmlFiles with glob('*') instead of glob('*.html')
HtmlFilesAll(dir) == SortedSeq(dir)

\* sorted(html_dir.glob('*.html'))
HtmlFiles(dir) == SortedSeq({n \in dir : IsHtml(n)})

\* -------------------------------------------------------------------- state
VARIABLES
    files,        \* the directory: name -> text on disk
    perm,         \* the environment: name -> "ok", "noread" or "nowrite"
    dirExists,    \* html_dir.exists()
    pc,           \* position of the script
    html_files,   \* main: the sorted list of paths
    idx,          \* main: position of the for loop in html_files
    fixed_count,  \* main: fixed_count
    content,      \* fix_nested_html: content
    match,        \* fix_nested_html: match
    stdout,       \* the lines printed by this run
    iolog         \* the reads and writes this run issued to the file system

vars == <<files, perm, dirExists, pc, html_files, idx, fixed_count, content, match, stdout, iolog>>

file_path == html_files[idx]

Locals0 ==
    /\ pc = "start"
    /\ html_files = <<>>
    /\ idx = 0
    /\ fixed_count = 0
    /\ content = <<>>
    /\ match = NoMatch
    /\ stdout = <<>>
    /\ iolog = <<>>

\* one readable, writable .html file holding any of the bounded texts
InitOne ==
    /\ \E t \in PieceTexts \cup SampleTexts : files = [n \in {NameA} |-> t]
    /\ perm = [n \in {NameA} |-> "ok"]
    /\ dirExists = TRUE
    /\ Locals0

\* a directory of up to MaxFiles entries, some of them unreadable or unwritable
InitBatch ==
    /\ \E dir \in SUBSET Names :
          /\ Cardinality(dir) <= MaxFiles
          /\ files \in [dir -> SampleTexts]
          /\ perm \in [dir -> {"ok", "noread", "nowrite"}]
    /\ dirExists \in BOOLEAN
    /\ Locals0

Init == InitOne \/ InitBatch

\* ------------------------------------------------------------------ actions
\* main: html_dir does not exist
NoDir ==
    /\ pc = "start"
    /\ ~dirExists
    /\ stdout' = Append(stdout, <<"nodir">>)
    /\ pc' = "done"
    /\ UNCHANGED <<files, perm, dirExists, html_files, idx, fixed_count, content, match, iolog>>

\* main: html_files = sorted(html_dir.glob('*.html')); fixed_count = 0
ListDir ==
    /\ pc = "start"
    /\ dirExists
    /\ html_files' = HtmlFiles(DOMAIN files)
    /\ fixed_count' = 0
    /\ idx' = 1
    /\ pc' = "loop"
    /\ UNCHANGED <<files, perm, dirExists, content, match, stdout, iolog>>

\* fix_nested_html: content = file_path.read_text(); match = pattern.search(content)
ReadText ==
    /\ pc = "loop"
    /\ idx <= Len(html_files)
    /\ perm[file_path] # "noread"
    /\ content' = files[file_path]
    /\ match' = Search(files[file_path])
    /\ iolog' = Append(iolog, <<"read", file_path>>)
    /\ pc' = "searched"
    /\ UNCHANGED <<files, perm, dirExists, html_files, idx, fixed_count, stdout>>

\* ReadFail with the error caught and the loop going on to the next file
ReadFailSkips ==
    /\ pc = "loop"
    /\ idx <= Len(html_files)
    /\ perm[file_path] = "noread"
    /\ iolog' = Append(iolog, <<"readfail", file_path>>)
    /\ idx' = idx + 1
    /\ UNCHANGED <<files, perm, dirExists, pc, html_files, fixed_count, content, match, stdout>>

\* read_text raises: nothing catches it, the process ends with a traceback
ReadFail ==
    /\ pc = "loop"
    /\ idx <= Len(html_files)
    /\ perm[file_path] = "noread"
    /\ iolog' = Append(iolog, <<"readfail", file_path>>)
    /\ pc' = "aborted"
    /\ UNCHANGED <<files, perm, dirExists, html_files, idx, fixed_count, content, match, stdout>>

\* fix_nested_html: if not match: return False; main: next file
ReturnFalse ==
    /\ pc = "searched"
    /\ match = NoMatch
    /\ idx' = idx + 1
    /\ pc' = "loop"
    /\ UNCHANGED <<files, perm, dirExists, html_files, fixed_count, content, match, stdout, iolog>>

\* fix_nested_html: print, splice, write_text, print, return True; main: fixed_count += 1
WriteText ==
    /\ pc = "searched"
    /\ match # NoMatch
    /\ perm[file_path] # "nowrite"
    /\ files' = [files EXCEPT ![file_path] = NewContent(content, match)]
    /\ iolog' = Append(iolog, <<"write", file_path>>)
    /\ stdout' = stdout \o << <<"found", file_path>>, <<"fixed", file_path>> >>
    /\ fixed_count' = fixed_count + 1
    /\ idx' = idx + 1
    /\ pc' = "loop"
    /\ UNCHANGED <<perm, dirExists, html_files, content, match>>

\* write_text raises after "Found nested HTML" was printed
WriteFail ==
    /\ pc = "searched"
    /\ match # NoMatch
    /\ perm[file_path] = "nowrite"
    /\ iolog' = Append(iolog, <<"writefail", file_path>>)
    /\ stdout' = Append(stdout, <<"found", file_path>>)
    /\ pc' = "aborted"
    /\ UNCHANGED <<files, perm, dirExists, html_files, idx, fixed_count, content, match>>

\* main: the loop is over; print the summary line
Summary ==
    /\ pc = "loop"
    /\ idx > Len(html_files)
    /\ stdout' = Append(stdout, <<"summary", Len(html_files), fixed_count>>)
    /\ pc' = "done"
    /\ UNCHANGED <<files, perm, dirExists, html_files, idx, fixed_count, content, match, iolog>>

\* the script is started again on the same directory
Rerun ==
    /\ pc \in {"done", "aborted"}
    /\ pc' = "start"
    /\ html_files' = <<>>
    /\ idx' = 0
    /\ fixed_count' = 0
    /\ content' = <<>>
    /\ match' = NoMatch
    /\ stdout' = <<>>
    /\ iolog' = <<>>
    /\ UNCHANGED <<files, perm, dirExists>>

Next ==
    \/ NoDir
    \/ ListDir
    \/ ReadText
    \/ ReadFail
    \/ ReturnFalse
    \/ WriteText
    \/ WriteFail
    \/ Summary
    \/ Rerun

Spec == Init /\ [][Next]_vars

\* ---------------------------------------------------------------- properties
Last(q) == q[Len(q)]

\* the run has just rewritten file n: content and match still hold what was read
JustWrote(n) == iolog # <<>> /\ Last(iolog) = <<"write", n>>

\* the tokens of t outside the spans of group 2 and group 4, in their order
RECURSIVE Without(_, _, _)
Without(t, m, i) ==
    IF i > Len(t) THEN <<>>
    ELSE IF (m.g2 <= i /\ i < m.g3) \/ (m.g4 <= i /\ i < m.g5)
         THEN Without(t, m, i + 1)
         ELSE <<t[i]>> \o Without(t, m, i + 1)

\* C1: the text written back is the text read with exactly the tokens of
\* group 2 (from <!DOCTYPE html> to the '>' of the inner <body ...>) and of
\* group 4 (</body>, whitespace, </html>) removed and every other token kept
\* in order; the example of the specification becomes
\* <div class="display-inner">XINNERY</div>.
C1_SpliceDropsOnlyGroups2And4 ==
    \A n \in DOMAIN files :
        JustWrote(n) =>
            /\ files[n] = Without(content, match, 1)
            /\ content[match.start] = "DIV"
            /\ content[match.g2] = "T"
            /\ EndsGT(content[match.g3 - 1])
            /\ content[match.g4] = "E"
            /\ content[match.g5 - 1] = "H"
            /\ content[match.end - 1] = "V"
            /\ (content = Example => files[n] = ExampleFixed)

C1_Witness ==
    \E n \in DOMAIN files :
        JustWrote(n) /\ content = Example /\ files[n] = ExampleFixed

\* a wrapper opening tag that is later followed by <!DOCTYPE html>
DivThenDoctype(t) ==
    \E i \in 1..Len(t) : \E j \in (i + 1)..Len(t) : t[i] = "DIV" /\ t[j] = "T"

\* C2: a text without a wrapper tag followed by <!DOCTYPE html> does not
\* match, and after a failed search the step taken writes no file, changes no
\* file content, prints nothing and leaves fixed_count as it was.
C2_NoMatchNoChange ==
    /\ [](pc = "searched" /\ ~DivThenDoctype(content) => match = NoMatch)
    /\ [][pc = "searched" /\ match = NoMatch =>
            /\ files' = files
            /\ fixed_count' = fixed_count
            /\ iolog' = iolog
            /\ stdout' = stdout
            /\ pc' = "loop"]_vars

C2_Witness ==
    /\ pc = "loop"
    /\ idx = 2
    /\ iolog = << <<"read", html_files[1]>> >>
    /\ ~DivThenDoctype(content)
    /\ "DIV" \in {content[i] : i \in 1..Len(content)}
    /\ files[html_files[1]] = content
    /\ fixed_count = 0

\* the number of non-overlapping matches of the pattern in t (finditer)
RECURSIVE MatchCount(_)
MatchCount(t) ==
    LET m == Search(t)
    IN  IF m = NoMatch THEN 0 ELSE 1 + MatchCount(SubSeq(t, m.end, Len(t)))

Count(tok, t) == Cardinality({i \in 1..Len(t) : t[i] = tok})
PosOf(tok, t, from) == Min({i \in from..Len(t) : t[i] = tok})

\* the match a reader of the markup expects in a text with one wrapper that
\* holds one complete inner document
Expected(t) ==
    LET s == PosOf("DIV", t, 1)
        d == PosOf("T", t, s + 1)
        b == PosOf("B", t, d + 1)
        g == Min({i \in (b + 1)..Len(t) : EndsGT(t[i])})
        e == PosOf("E", t, g + 1)
        h == PosOf("H", t, e + 1)
        v == PosOf("V", t, h + 1)
    IN  [start |-> s, g2 |-> d, g3 |-> g + 1, g4 |-> e, g5 |-> h + 1, end |-> v + 1]

\* exactly one wrapper, closed by the first </div> after its opening tag; in
\* between exactly one <!DOCTYPE html>, then exactly one <body ... >, then
\* exactly one </body> and, after whitespace only, exactly one </html>
WellFormedOne(t) ==
    /\ Count("DIV", t) = 1
    /\ \E v \in 1..Len(t) :
          /\ t[v] = "V"
          /\ LET s == PosOf("DIV", t, 1)
             IN  /\ s < v
                 /\ Count("V", SubSeq(t, s, v - 1)) = 0
                 /\ \A tok \in {"T", "B", "E", "H"} : Count(tok, SubSeq(t, s, v)) = 1
                 /\ LET d == PosOf("T", t, s)
                        b == PosOf("B", t, s)
                        e == PosOf("E", t, s)
                        h == PosOf("H", t, s)
                    IN  /\ d < b
                        /\ b < e
                        /\ e < h
                        /\ \E g \in (b + 1)..(e - 1) : EndsGT(t[g])
                        /\ \A i \in (e + 1)..(h - 1) : t[i] = "W"

\* the wrapper element of t: from the opening tag to the first </div> after it
Wrapper(t) ==
    LET s == PosOf("DIV", t, 1)
    IN  SubSeq(t, s, PosOf("V", t, s + 1))

\* C4: a text with one wrapper holding one complete inner document is
\* rewritten; the spans removed are the inner document's
\* <!DOCTYPE html> ... <body ...> and its </body> </html>, so the wrapper of
\* the result holds none of these four tags any more, the rest of the file
\* keeps its own, and the inner body content stands verbatim where the inner
\* document began.
C4_OneOccurrenceLosesItsBoilerplate ==
    /\ pc = "searched" /\ WellFormedOne(content) => match = Expected(content)
    /\ \A n \in DOMAIN files :
          JustWrote(n) /\ WellFormedOne(content) =>
              /\ match = Expected(content)
              /\ \A tok \in {"T", "B", "E", "H"} : Count(tok, Wrapper(files[n])) = 0
              /\ Count("T", files[n]) = Count("T", content) - 1
              /\ Count("B", files[n]) = Count("B", content) - 1
              /\ Count("E", files[n]) = Count("E", content) - 1
              /\ Count("H", files[n]) = Count("H", content) - 1
              /\ SubSeq(files[n], match.g2, match.g2 + (match.g4 - match.g3) - 1)
                    = Group3(content, match)
              /\ SubSeq(files[n], 1, match.g2 - 1) = SubSeq(content, 1, match.g2 - 1)

C4_Witness ==
    \E n \in DOMAIN files :
        /\ JustWrote(n)
        /\ content = Page
        /\ WellFormedOne(content)
        /\ fixed_count = 1
        /\ files[n] = <<"T", "HTMLO", "B", "G">> \o ExampleFixed \o <<"W", "E", "W", "H">>

\* C3: when the text read held a single nested-document occurrence (one
\* wrapper, holding one complete inner document, and one match of the
\* pattern), a second search, on the text just written, finds no match.
C3_SecondFixFindsNothing ==
    \A n \in DOMAIN files :
        JustWrote(n) /\ WellFormedOne(content) /\ MatchCount(content) = 1 =>
            Search(files[n]) = NoMatch

\* what the rewrite removed, in tokens
Removed(m) == (m.g3 - m.g2) + (m.g5 - m.g4)

\* C5: one invocation rewrites the first match only: the file is written
\* once, everything after the end of the first match is written back as it
\* was, so every further occurrence of the pattern is still there.
C5_OnlyFirstMatchRewritten ==
    \A n \in DOMAIN files :
        JustWrote(n) =>
            LET rest == SubSeq(content, match.end, Len(content))
            IN  /\ match = Search(content)
                /\ SubSeq(files[n], match.end - Removed(match), Len(files[n])) = rest
                /\ MatchCount(files[n]) >= MatchCount(rest)
                /\ Cardinality({k \in 1..Len(iolog) : iolog[k] = <<"write", n>>}) = 1

C5_Witness ==
    \E n \in DOMAIN files :
        /\ JustWrote(n)
        /\ content = Twice
        /\ files[n] = ExampleFixed \o <<"W">> \o Example
        /\ MatchCount(files[n]) = 1

\* position of a path in html_files (0 when it is not listed)
IndexOf(n) ==
    IF \E j \in 1..Len(html_files) : html_files[j] = n
    THEN CHOOSE j \in 1..Len(html_files) : html_files[j] = n
    ELSE 0

Failed(k) == iolog[k][1] \in {"readfail", "writefail"}
Printed(kind) == {k \in 1..Len(stdout) : stdout[k][1] = kind}

\* C6: a failing read or write ends the run at that file: it is the last
\* thing the run does to the file system, nothing later in sorted order was
\* touched, no summary line is printed, and neither the failing step nor
\* anything after it in this run changes a file (what was fixed stays fixed).
C6_FailureAbortsBatch ==
    /\ [](\A k \in 1..Len(iolog) :
            Failed(k) =>
                /\ pc = "aborted"
                /\ k = Len(iolog)
                /\ iolog[k][2] = html_files[idx]
                /\ \A j \in 1..Len(iolog) : IndexOf(iolog[j][2]) <= idx
                /\ Printed("summary") = {}
                /\ Cardinality(Printed("fixed")) = fixed_count)
    /\ [](pc = "aborted" => iolog # <<>> /\ Failed(Len(iolog)))
    /\ [][pc = "aborted" \/ pc' = "aborted" =>
            files' = files /\ (pc = "aborted" => pc' = "start")]_vars

C6_Witness ==
    /\ pc = "aborted"
    /\ idx = 2
    /\ Len(html_files) = 3
    /\ fixed_count = 1
    /\ iolog = << <<"read", html_files[1]>>, <<"write", html_files[1]>>,
                  <<"readfail", html_files[2]>> >>
    /\ files[html_files[1]] = ExampleFixed
    /\ files[html_files[3]] = Example

Written == {iolog[k][2] : k \in {j \in 1..Len(iolog) : iolog[j][1] = "write"}}

\* C7: a completed run reports as total the number of entries of the
\* directory whose name ends in .html and as fixed the number of files it
\* rewrote, which is at most the total.
C7_SummaryCounts ==
    pc = "done" /\ dirExists =>
        /\ Printed("summary") = {Len(stdout)}
        /\ Last(stdout)[2] = Cardinality({n \in DOMAIN files : IsHtml(n)})
        /\ Last(stdout)[3] = Cardinality(Written)
        /\ Last(stdout)[3] = Cardinality({k \in 1..Len(iolog) : iolog[k][1] = "write"})
        /\ Last(stdout)[3] <= Last(stdout)[2]

\* three .html files, one of them matching
C7_Witness ==
    /\ pc = "done"
    /\ DOMAIN files = {NameADashB, NameA, NameB}
    /\ files[NameADashB] = Plain
    /\ files[NameA] = ExampleFixed
    /\ files[NameB] = Plain
    /\ Written = {NameA}
    /\ Last(stdout) = <<"summary", 3, 1>>

Reads(k) == Cardinality({j \in 1..k : iolog[j][1] \in {"read", "readfail"}})

\* C8: the paths are handled in strictly increasing order of name, each one
\* once: the j-th read is of the j-th name, a write follows directly the read
\* of the same file, and a completed run has read every .html file.
C8_OneFileAtATimeInOrder ==
    /\ \A j \in 1..(Len(html_files) - 1) : LexLess(html_files[j], html_files[j + 1])
    /\ pc \in {"loop", "searched", "aborted"} \/ (pc = "done" /\ dirExists) =>
          {html_files[j] : j \in 1..Len(html_files)} = {n \in DOMAIN files : IsHtml(n)}
    /\ \A k \in 1..Len(iolog) :
          /\ iolog[k][1] \in {"read", "readfail"} => iolog[k][2] = html_files[Reads(k)]
          /\ iolog[k][1] \in {"write", "writefail"} =>
                k > 1 /\ iolog[k - 1] = <<"read", iolog[k][2]>>
    /\ pc = "searched" => iolog # <<>> /\ Last(iolog) = <<"read", html_files[idx]>>
    /\ pc = "done" /\ dirExists => Reads(Len(iolog)) = Len(html_files)

C8_Witness ==
    /\ pc = "done"
    /\ html_files = <<NameADashB, NameA, NameB>>
    /\ iolog = << <<"read", NameADashB>>, <<"write", NameADashB>>,
                  <<"read", NameA>>,
                  <<"read", NameB>>, <<"write", NameB>> >>

\* the wrapper of t is closed before any </body> whitespace </html>
Malformed(t) ==
    /\ Count("DIV", t) = 1
    /\ LET s == PosOf("DIV", t, 1)
       IN  /\ \E d \in (s + 1)..Len(t) : t[d] = "T"
           /\ \E v \in (s + 1)..Len(t) :
                 /\ t[v] = "V"
                 /\ \A e \in (s + 1)..(v - 1) : M4(t, e)[1] = 0 \/ M4(t, e)[1] > v

\* C9: a wrapper whose inner document is not closed by </body></html> before
\* the wrapper's own </div> never matches, whatever follows.
C9_MalformedNeverMatches ==
    pc = "searched" /\ Malformed(content) => match = NoMatch

\* how often the fix must be applied to t until it finds nothing
RECURSIVE Invocations(_)
Invocations(t) ==
    LET m == Search(t)
    IN  IF m = NoMatch THEN 0 ELSE 1 + Invocations(NewContent(t, m))

\* the shortest groups 2 and 4 there are: <!DOCTYPE html><body></body></html>
ShortestRemoved == <<"T", "B", "G", "E", "H">>

\* C10: every rewrite shortens the file by the characters of group 2 and of
\* group 4, at least one of each, and changes no other file; so applying the
\* fix until it reports no change ends, after no more invocations than the
\* length of the text allows.
C10_ShrinksAndTerminates ==
    /\ [][Len(iolog') > Len(iolog) /\ Last(iolog')[1] = "write" =>
            LET n == Last(iolog')[2]
            IN  /\ TextLen(files'[n]) = TextLen(files[n])
                       - TextLen(Group2(content, match)) - TextLen(Group4(content, match))
                /\ TextLen(Group2(content, match)) > 0
                /\ TextLen(Group4(content, match)) > 0
                /\ TextLen(files'[n]) < TextLen(files[n])
                /\ \A o \in DOMAIN files \ {n} : files'[o] = files[o]]_vars
    /\ [][files' # files => Len(iolog') > Len(iolog) /\ Last(iolog')[1] = "write"]_vars
    /\ [](pc = "searched" =>
            Invocations(content) * TextLen(ShortestRemoved) <= TextLen(content))

\* the second run over a file that held two occurrences has fixed the second
C10_Witness ==
    /\ pc = "done"
    /\ fixed_count = 0
    /\ dirExists
    /\ Len(html_files) = 1
    /\ files[html_files[1]] = ExampleFixed \o <<"W">> \o ExampleFixed

====
